---------------------------- MODULE Spec2Model ----------------------------
(***************************************************************************)
(* Model of launchPad.ino, the control loop of the compressed-air rocket   *)
(* launch pad: loop() calls updateData() forever; updateData() samples the *)
(* chamber pressures, runs the heartbeat (pulse) and its telemetry send,   *)
(* polls the Zigbee link, and then either handles a communication timeout, *)
(* launches the rocket(s) or mirrors the compressor request.               *)
(*                                                                         *)
(* The position inside updateData()/launchRocket() is the variable pc, one *)
(* value per statement group, so that the states inside a firing are       *)
(* states of the model.  millis() is the variable now; it advances when    *)
(* loop() re-enters updateData() and during delay(100).                    *)
(*                                                                         *)
(* LaunchDataPacket (LaunchDataPacket.h) is a library that is not part of  *)
(* the sketch: its accessors are modelled as reads and writes of the       *)
(* fields of one record, data.                                             *)
(***************************************************************************)
EXTENDS Integers, Sequences, FiniteSets, TLC

\* Program constants (launchPad.ino).
_pulse_halfwidth_ == 100
_zigbee_timeout_ == 1000
launch_delay == 100

\* Bounds of the model.
MaxTime == 1300
TickInterval == 50
MaxRun == 3

\* Durations of one pass of loop(): a short pass, and a pass long enough for
\* the watchdog to expire (the link is polled once per pass).
TickTimes == {TickInterval, _zigbee_timeout_ + TickInterval}

\* Values analogRead() may return (a 10-bit ADC, cut down to two values).
AnalogValues == {0, 1}

VARIABLES
    now,                \* millis()
    pc,                 \* position in loop()/updateData()/launchRocket()
    pulse,              \* boolean pulse
    timeSinceLastPulse, \* long timeSinceLastPulse
    wasRocketLaunched,  \* boolean wasRocketLaunched
    data,               \* LaunchDataPacket data
    PORTD,              \* the output register: one bit per output line
    tick,               \* what the current pass of updateData() did (history)
    hist                \* what earlier passes did (history)

vars == <<now, pc, pulse, timeSinceLastPulse, wasRocketLaunched, data, PORTD,
          tick, hist>>

---------------------------------------------------------------------------
\* Arduino bit operations on a port register.
bitSet(port, bit) == [port EXCEPT ![bit] = TRUE]
bitClear(port, bit) == [port EXCEPT ![bit] = FALSE]

---------------------------------------------------------------------------
\* LaunchDataPacket: the decoded command of the master panel, the pressures
\* to report, and the time of the last good receive.

\* A command the master panel may send.
Commands ==
    [masterArm : BOOLEAN, masterLaunch : BOOLEAN, compressor : BOOLEAN,
     pad1 : BOOLEAN, pad2 : BOOLEAN]

\* Commands with the launch request off.
IdleCommands == {m \in Commands : ~m.masterLaunch}

LaunchDataPacket ==
    [pressure1 |-> 0, pressure2 |-> 0, masterArm |-> FALSE,
     masterLaunch |-> FALSE, compressor |-> FALSE, pad1 |-> FALSE,
     pad2 |-> FALSE, lastReceive |-> 0]

setPressure1(d, v) == [d EXCEPT !.pressure1 = v]
setPressure2(d, v) == [d EXCEPT !.pressure2 = v]
isPad1Selected(d) == d.pad1
isPad2Selected(d) == d.pad2
isMasterLaunchSet(d) == d.masterLaunch
isCompressorOn(d) == d.compressor
compressorOff(d) == [d EXCEPT !.compressor = FALSE]
masterArmIsOff(d) == [d EXCEPT !.masterArm = FALSE]
masterLaunchClear(d) == [d EXCEPT !.masterLaunch = FALSE]
didMasterTimeout(d, t) == t - d.lastReceive > _zigbee_timeout_

\* readDataFromXbee with a command m waiting on the link at time t.
readDataFromXbee(d, m, t) ==
    [d EXCEPT !.masterArm = m.masterArm, !.masterLaunch = m.masterLaunch,
              !.compressor = m.compressor, !.pad1 = m.pad1, !.pad2 = m.pad2,
              !.lastReceive = t]

\* The telemetry packet sendDataToMaster sends.
sendDataToMaster(d) ==
    [pressure1 |-> d.pressure1, pressure2 |-> d.pressure2,
     masterLaunch |-> d.masterLaunch, compressor |-> d.compressor,
     pad1 |-> d.pad1, pad2 |-> d.pad2]

---------------------------------------------------------------------------
\* History of the current pass of updateData(), reset when loop() re-enters
\* at time t.
NewTick(t) ==
    [startTime |-> t,                \* millis() when the pass began
     pulseStart |-> pulse,           \* pulse when the pass began
     lastPulseStart |-> timeSinceLastPulse, \* ... and timeSinceLastPulse
     latchStart |-> wasRocketLaunched,      \* ... and wasRocketLaunched
     compStart |-> PORTD.Compressor, \* ... and the compressor output
     pad1Start |-> data.pad1,        \* ... and the pad selection
     pad2Start |-> data.pad2,
     launchStart |-> data.masterLaunch,  \* ... and the launch request
     compReqStart |-> data.compressor,   \* ... and the compressor request
     errStart |-> PORTD.ErrorLed,    \* ... and the error LED output
     sample1 |-> 0,            \* what readPressure() read on channel 1
     sample2 |-> 0,            \* ... and on channel 2
     afterTimeout |-> tick.timedOut, \* the pass before this one timed out
     afterFiring |-> tick.fired,     \* the pass before this one fired
     firedBefore |-> hist.firedEver, \* a firing happened before this pass
     pulseTime |-> 0,          \* the local pulseTime
     checked |-> FALSE,        \* didMasterTimeout() was evaluated
     timedOut |-> FALSE,       \* ... and it returned true
     launchSet |-> FALSE,      \* the launch request when it was evaluated
     fired |-> FALSE,          \* launchRocket() passed its guard
     opened1 |-> FALSE,        \* the pad-1 valve output was set on
     opened2 |-> FALSE,        \* the pad-2 valve output was set on
     gap |-> 0,                \* time from the previous telemetry send to
                               \* the one of this pass (0: none)
     sent |-> <<>>]            \* telemetry packets sent in this pass

\* History across passes.
NewHist ==
    [launchRun |-> 0,      \* consecutive passes, no timeout, launch request
                           \* on, the first of them entered with latch off
     runFirings |-> 0,     \* firings in that run
     firedEver |-> FALSE,  \* a firing has happened
     wentFalse |-> TRUE,   \* since the last firing the launch request was
                           \* false at some point (by any path)
     readFalse |-> FALSE,  \* since the last firing a pass without timeout
                           \* read the launch request false
     lastSend |-> -1]      \* time of the last telemetry send (-1: none)

Cap(n) == IF n < MaxRun THEN n ELSE MaxRun

---------------------------------------------------------------------------
\* setup(): the register is all zero after reset, pulse is false.
Init ==
    /\ now = 0
    /\ pc = "loop"
    /\ pulse = FALSE
    /\ timeSinceLastPulse = 0
    /\ wasRocketLaunched = FALSE
    /\ data = LaunchDataPacket
    /\ PORTD = [SafetyLed |-> FALSE, ErrorLed |-> FALSE, Pad1Launch |-> FALSE,
                Pad2Launch |-> FALSE, Compressor |-> FALSE]
    /\ tick = [startTime |-> 0, pulseStart |-> FALSE, lastPulseStart |-> 0,
               latchStart |-> FALSE, compStart |-> FALSE, pad1Start |-> FALSE,
               pad2Start |-> FALSE, launchStart |-> FALSE,
               compReqStart |-> FALSE, errStart |-> FALSE, sample1 |-> 0,
               sample2 |-> 0, afterTimeout |-> FALSE, afterFiring |-> FALSE,
               firedBefore |-> FALSE, pulseTime |-> 0, checked |-> FALSE,
               timedOut |-> FALSE, launchSet |-> FALSE, fired |-> FALSE,
               opened1 |-> FALSE, opened2 |-> FALSE, gap |-> 0, sent |-> <<>>]
    /\ hist = NewHist

\* loop(): call updateData() again, d milliseconds after the last call.
loop(d) ==
    /\ pc = "loop"
    /\ now + d <= MaxTime
    /\ now' = now + d
    /\ pc' = "readPressure"
    /\ tick' = NewTick(now + d)
    /\ hist' = IF tick.checked /\ ~tick.timedOut /\ tick.launchSet
                  THEN [hist EXCEPT !.wentFalse = FALSE, !.readFalse = FALSE]
                  ELSE hist
    /\ UNCHANGED <<pulse, timeSinceLastPulse, wasRocketLaunched, data, PORTD>>

\* readPressure() storing the reading of channel 2 as pressure 1 and the
\* reading of channel 1 as pressure 2.
readPressureSwapsChannels ==
    /\ pc = "readPressure"
    /\ \E a1 \in AnalogValues, a2 \in AnalogValues :
          /\ data' = setPressure2(setPressure1(data, a2), a1)
          /\ tick' = [tick EXCEPT !.sample1 = a1, !.sample2 = a2]
    /\ pc' = "pulse"
    /\ UNCHANGED <<now, pulse, timeSinceLastPulse, wasRocketLaunched, PORTD,
                   hist>>

\* readPressure().
readPressure ==
    /\ pc = "readPressure"
    /\ \E a1 \in AnalogValues, a2 \in AnalogValues :
          /\ data' = setPressure2(setPressure1(data, a1), a2)
          /\ tick' = [tick EXCEPT !.sample1 = a1, !.sample2 = a2]
    /\ pc' = "pulse"
    /\ UNCHANGED <<now, pulse, timeSinceLastPulse, wasRocketLaunched, PORTD,
                   hist>>

\* writeZigbeeMaster(): the packet handed to the link.
writeZigbeeMaster(d) == sendDataToMaster(d)

\* pulseDue with >= for >.
pulseDueAtHalfwidth(pulseTime) == pulseTime >= _pulse_halfwidth_

\* updateData(), line 248: is a phase flip due?
pulseDue(pulseTime) == pulseTime > _pulse_halfwidth_

\* sendDue on both edges of pulse.
sendDueBothEdges(p) == TRUE

\* sendDue on the falling edge of pulse.
sendDueFallingEdge(p) == ~p

\* updateData(), line 251: telemetry goes out on the rising edge of pulse.
sendDue(p) == p

\* updateData(), lines 247-255: the heartbeat and its telemetry send.
updatePulse ==
    /\ pc = "pulse"
    /\ LET pulseTime == now - timeSinceLastPulse IN
         IF pulseDue(pulseTime)
           THEN /\ timeSinceLastPulse' = now
                /\ pulse' = ~pulse
                /\ IF sendDue(pulse')
                     THEN /\ tick' = [tick EXCEPT
                                 !.pulseTime = pulseTime,
                                 !.sent = Append(@, writeZigbeeMaster(data)),
                                 !.gap = IF hist.lastSend >= 0
                                           THEN now - hist.lastSend ELSE 0]
                          /\ hist' = [hist EXCEPT !.lastSend = now]
                     ELSE /\ tick' = [tick EXCEPT !.pulseTime = pulseTime]
                          /\ hist' = hist
           ELSE /\ tick' = [tick EXCEPT !.pulseTime = pulseTime]
                /\ UNCHANGED <<timeSinceLastPulse, pulse, hist>>
    /\ pc' = "readZigbee"
    /\ UNCHANGED <<now, wasRocketLaunched, data, PORTD>>

\* readZigbee(): nothing is waiting on the link, or one command of msgs is.
readZigbee(msgs) ==
    /\ pc = "readZigbee"
    /\ \/ data' = data
       \/ \E m \in msgs : data' = readDataFromXbee(data, m, now)
    /\ hist' = IF ~data'.masterLaunch THEN [hist EXCEPT !.wentFalse = TRUE]
                                      ELSE hist
    /\ pc' = "check"
    /\ UNCHANGED <<now, pulse, timeSinceLastPulse, wasRocketLaunched, PORTD,
                   tick>>

\* setSafetyLedState(), setErrorLedState(): never called by the sketch.
setSafetyLedState(port, state) ==
    IF state THEN bitSet(port, "SafetyLed") ELSE bitClear(port, "SafetyLed")
setErrorLedState(port, state) ==
    IF state THEN bitSet(port, "ErrorLed") ELSE bitClear(port, "ErrorLed")

\* blinkErrorLed() without the bitClear of line 187.
blinkErrorLedNeverOff(port, p) ==
    IF p THEN bitSet(port, "ErrorLed") ELSE port

\* blinkErrorLed(), blinkSafetyLed().
blinkErrorLed(port, p) ==
    IF p THEN bitSet(port, "ErrorLed") ELSE bitClear(port, "ErrorLed")
blinkSafetyLed(port, p) ==
    IF p THEN bitSet(port, "SafetyLed") ELSE bitClear(port, "SafetyLed")

\* timeoutBranch that also re-arms the launch latch.
timeoutBranchResetsLatch ==
    /\ pc = "check"
    /\ didMasterTimeout(data, now)
    /\ data' = masterLaunchClear(masterArmIsOff(compressorOff(data)))
    /\ wasRocketLaunched' = FALSE
    /\ PORTD' = blinkErrorLed(PORTD, pulse)
    /\ pc' = "loop"
    /\ tick' = [tick EXCEPT !.checked = TRUE, !.timedOut = TRUE,
                            !.launchSet = isMasterLaunchSet(data)]
    /\ hist' = [hist EXCEPT !.launchRun = 0, !.runFirings = 0,
                            !.wentFalse = TRUE]
    /\ UNCHANGED <<now, pulse, timeSinceLastPulse>>

\* timeoutBranch without line 263: the launch request survives the timeout.
timeoutBranchKeepsLaunch ==
    /\ pc = "check"
    /\ didMasterTimeout(data, now)
    /\ data' = masterArmIsOff(compressorOff(data))
    /\ PORTD' = blinkErrorLed(PORTD, pulse)
    /\ pc' = "loop"
    /\ tick' = [tick EXCEPT !.checked = TRUE, !.timedOut = TRUE,
                            !.launchSet = isMasterLaunchSet(data)]
    /\ hist' = [hist EXCEPT !.launchRun = 0, !.runFirings = 0,
                            !.wentFalse = TRUE]
    /\ UNCHANGED <<now, pulse, timeSinceLastPulse, wasRocketLaunched>>

\* updateData(), lines 260-264: communication error.
timeoutBranch ==
    /\ pc = "check"
    /\ didMasterTimeout(data, now)
    /\ data' = masterLaunchClear(masterArmIsOff(compressorOff(data)))
    /\ PORTD' = blinkErrorLed(PORTD, pulse)
    /\ pc' = "loop"
    /\ tick' = [tick EXCEPT !.checked = TRUE, !.timedOut = TRUE,
                            !.launchSet = isMasterLaunchSet(data)]
    /\ hist' = [hist EXCEPT !.launchRun = 0, !.runFirings = 0,
                            !.wentFalse = TRUE]
    /\ UNCHANGED <<now, pulse, timeSinceLastPulse, wasRocketLaunched>>

\* launchBranch with the launch test outside the else of the timeout test.
launchBranchNoElse ==
    /\ pc = "check"
    /\ isMasterLaunchSet(data)
    /\ pc' = "launchRocket"
    /\ tick' = [tick EXCEPT !.checked = TRUE, !.launchSet = TRUE,
                            !.timedOut = didMasterTimeout(data, now)]
    /\ hist' = [hist EXCEPT !.launchRun =
                   IF @ > 0 THEN Cap(@ + 1)
                   ELSE IF ~wasRocketLaunched THEN 1 ELSE 0]
    /\ UNCHANGED <<now, pulse, timeSinceLastPulse, wasRocketLaunched, data,
                   PORTD>>

\* launchBranch with the compressor mirrored before the launch test.
launchBranchMirrorsCompressor ==
    /\ pc = "check"
    /\ ~didMasterTimeout(data, now)
    /\ isMasterLaunchSet(data)
    /\ PORTD' = IF isCompressorOn(data) THEN bitSet(PORTD, "Compressor")
                                        ELSE bitClear(PORTD, "Compressor")
    /\ pc' = "launchRocket"
    /\ tick' = [tick EXCEPT !.checked = TRUE, !.launchSet = TRUE]
    /\ hist' = [hist EXCEPT !.launchRun =
                   IF @ > 0 THEN Cap(@ + 1)
                   ELSE IF ~wasRocketLaunched THEN 1 ELSE 0]
    /\ UNCHANGED <<now, pulse, timeSinceLastPulse, wasRocketLaunched, data>>

\* updateData(), lines 265-267: no timeout, launch requested.
launchBranch ==
    /\ pc = "check"
    /\ ~didMasterTimeout(data, now)
    /\ isMasterLaunchSet(data)
    /\ pc' = "launchRocket"
    /\ tick' = [tick EXCEPT !.checked = TRUE, !.launchSet = TRUE]
    /\ hist' = [hist EXCEPT !.launchRun =
                   IF @ > 0 THEN Cap(@ + 1)
                   ELSE IF ~wasRocketLaunched THEN 1 ELSE 0]
    /\ UNCHANGED <<now, pulse, timeSinceLastPulse, wasRocketLaunched, data,
                   PORTD>>

\* compressorBranch without line 269: the latch is never reset.
compressorBranchKeepsLatch ==
    /\ pc = "check"
    /\ ~didMasterTimeout(data, now)
    /\ ~isMasterLaunchSet(data)
    /\ PORTD' = IF isCompressorOn(data) THEN bitSet(PORTD, "Compressor")
                                        ELSE bitClear(PORTD, "Compressor")
    /\ pc' = "loop"
    /\ tick' = [tick EXCEPT !.checked = TRUE]
    /\ hist' = [hist EXCEPT !.launchRun = 0, !.runFirings = 0,
                            !.readFalse = TRUE]
    /\ UNCHANGED <<now, pulse, timeSinceLastPulse, wasRocketLaunched, data>>

\* compressorBranch that also turns the error LED off.
compressorBranchClearsErrorLed ==
    /\ pc = "check"
    /\ ~didMasterTimeout(data, now)
    /\ ~isMasterLaunchSet(data)
    /\ wasRocketLaunched' = FALSE
    /\ PORTD' = setErrorLedState(
                   IF isCompressorOn(data) THEN bitSet(PORTD, "Compressor")
                                           ELSE bitClear(PORTD, "Compressor"),
                   FALSE)
    /\ pc' = "loop"
    /\ tick' = [tick EXCEPT !.checked = TRUE]
    /\ hist' = [hist EXCEPT !.launchRun = 0, !.runFirings = 0,
                            !.readFalse = TRUE]
    /\ UNCHANGED <<now, pulse, timeSinceLastPulse, data>>

\* compressorBranch without the else of lines 272-274: the compressor
\* output is never cleared here.
compressorBranchNeverOff ==
    /\ pc = "check"
    /\ ~didMasterTimeout(data, now)
    /\ ~isMasterLaunchSet(data)
    /\ wasRocketLaunched' = FALSE
    /\ PORTD' = IF isCompressorOn(data) THEN bitSet(PORTD, "Compressor")
                                        ELSE PORTD
    /\ pc' = "loop"
    /\ tick' = [tick EXCEPT !.checked = TRUE]
    /\ hist' = [hist EXCEPT !.launchRun = 0, !.runFirings = 0,
                            !.readFalse = TRUE]
    /\ UNCHANGED <<now, pulse, timeSinceLastPulse, data>>

\* updateData(), lines 268-275: no timeout, no launch requested.
compressorBranch ==
    /\ pc = "check"
    /\ ~didMasterTimeout(data, now)
    /\ ~isMasterLaunchSet(data)
    /\ wasRocketLaunched' = FALSE
    /\ PORTD' = IF isCompressorOn(data) THEN bitSet(PORTD, "Compressor")
                                        ELSE bitClear(PORTD, "Compressor")
    /\ pc' = "loop"
    /\ tick' = [tick EXCEPT !.checked = TRUE]
    /\ hist' = [hist EXCEPT !.launchRun = 0, !.runFirings = 0,
                            !.readFalse = TRUE]
    /\ UNCHANGED <<now, pulse, timeSinceLastPulse, data>>

\* launchReturn with the return after the resampling of lines 230-231.
launchReturnResamples ==
    /\ pc = "launchRocket"
    /\ wasRocketLaunched
    /\ \E a1 \in AnalogValues, a2 \in AnalogValues :
          data' = setPressure2(setPressure1(data, a1), a2)
    /\ pc' = "loop"
    /\ UNCHANGED <<now, pulse, timeSinceLastPulse, wasRocketLaunched, PORTD,
                   tick, hist>>

\* launchRocket(), lines 215-217: the launch command is a repeat.
launchReturn ==
    /\ pc = "launchRocket"
    /\ wasRocketLaunched
    /\ pc' = "loop"
    /\ UNCHANGED <<now, pulse, timeSinceLastPulse, wasRocketLaunched, data,
                   PORTD, tick, hist>>

\* launchStart without line 218: the latch is never set.
launchStartNoLatch ==
    /\ pc = "launchRocket"
    /\ ~wasRocketLaunched
    /\ pc' = "compressorClear"
    /\ tick' = [tick EXCEPT !.fired = TRUE]
    /\ hist' = [hist EXCEPT !.firedEver = TRUE,
                            !.runFirings = IF hist.launchRun > 0
                                             THEN Cap(@ + 1) ELSE @]
    /\ UNCHANGED <<now, pulse, timeSinceLastPulse, wasRocketLaunched, data,
                   PORTD>>

\* launchRocket(), lines 215 and 218: a new launch command.
launchStart ==
    /\ pc = "launchRocket"
    /\ ~wasRocketLaunched
    /\ wasRocketLaunched' = TRUE
    /\ pc' = "compressorClear"
    /\ tick' = [tick EXCEPT !.fired = TRUE]
    /\ hist' = [hist EXCEPT !.firedEver = TRUE,
                            !.runFirings = IF hist.launchRun > 0
                                             THEN Cap(@ + 1) ELSE @]
    /\ UNCHANGED <<now, pulse, timeSinceLastPulse, data, PORTD>>

\* launchCompressorClear without the bitClear of line 219.
launchCompressorKeep ==
    /\ pc = "compressorClear"
    /\ pc' = "pad1"
    /\ UNCHANGED <<now, pulse, timeSinceLastPulse, wasRocketLaunched, data,
                   PORTD, tick, hist>>

\* launchRocket(), line 219.
launchCompressorClear ==
    /\ pc = "compressorClear"
    /\ PORTD' = bitClear(PORTD, "Compressor")
    /\ pc' = "pad1"
    /\ UNCHANGED <<now, pulse, timeSinceLastPulse, wasRocketLaunched, data,
                   tick, hist>>

\* launchRocket(), lines 220-222.
launchPad1 ==
    /\ pc = "pad1"
    /\ IF isPad1Selected(data)
         THEN /\ PORTD' = bitSet(PORTD, "Pad1Launch")
              /\ tick' = [tick EXCEPT !.opened1 = TRUE]
         ELSE UNCHANGED <<PORTD, tick>>
    /\ pc' = "pad2"
    /\ UNCHANGED <<now, pulse, timeSinceLastPulse, wasRocketLaunched, data,
                   hist>>

\* launchPad2 testing the selection of pad 1.
launchPad2TestsPad1 ==
    /\ pc = "pad2"
    /\ IF isPad1Selected(data)
         THEN /\ PORTD' = bitSet(PORTD, "Pad2Launch")
              /\ tick' = [tick EXCEPT !.opened2 = TRUE]
         ELSE UNCHANGED <<PORTD, tick>>
    /\ pc' = "delay"
    /\ UNCHANGED <<now, pulse, timeSinceLastPulse, wasRocketLaunched, data,
                   hist>>

\* launchRocket(), lines 223-225.
launchPad2 ==
    /\ pc = "pad2"
    /\ IF isPad2Selected(data)
         THEN /\ PORTD' = bitSet(PORTD, "Pad2Launch")
              /\ tick' = [tick EXCEPT !.opened2 = TRUE]
         ELSE UNCHANGED <<PORTD, tick>>
    /\ pc' = "delay"
    /\ UNCHANGED <<now, pulse, timeSinceLastPulse, wasRocketLaunched, data,
                   hist>>

\* launchRocket(), line 226: delay(100) blocks the loop.
launchDelay ==
    /\ pc = "delay"
    /\ now' = now + launch_delay
    /\ pc' = "closePad1"
    /\ UNCHANGED <<pulse, timeSinceLastPulse, wasRocketLaunched, data, PORTD,
                   tick, hist>>

\* launchRocket(), line 227.
launchClosePad1 ==
    /\ pc = "closePad1"
    /\ PORTD' = bitClear(PORTD, "Pad1Launch")
    /\ pc' = "closePad2"
    /\ UNCHANGED <<now, pulse, timeSinceLastPulse, wasRocketLaunched, data,
                   tick, hist>>

\* launchClosePad2 clearing the bit of pad 1 again.
launchClosePad2ClearsPad1 ==
    /\ pc = "closePad2"
    /\ PORTD' = bitClear(PORTD, "Pad1Launch")
    /\ pc' = "resample"
    /\ UNCHANGED <<now, pulse, timeSinceLastPulse, wasRocketLaunched, data,
                   tick, hist>>

\* launchRocket(), line 228.
launchClosePad2 ==
    /\ pc = "closePad2"
    /\ PORTD' = bitClear(PORTD, "Pad2Launch")
    /\ pc' = "resample"
    /\ UNCHANGED <<now, pulse, timeSinceLastPulse, wasRocketLaunched, data,
                   tick, hist>>

\* launchRocket(), lines 230-231: the pressures after the launch.
launchResample ==
    /\ pc = "resample"
    /\ \E a1 \in AnalogValues, a2 \in AnalogValues :
          data' = setPressure2(setPressure1(data, a1), a2)
    /\ pc' = "loop"
    /\ UNCHANGED <<now, pulse, timeSinceLastPulse, wasRocketLaunched, PORTD,
                   tick, hist>>

\* launchRocket(): its steps after the guard.
launchRocket ==
    \/ launchCompressorClear
    \/ launchPad1
    \/ launchPad2
    \/ launchDelay
    \/ launchClosePad1
    \/ launchClosePad2
    \/ launchResample

Next ==
    \/ \E d \in TickTimes : loop(d)
    \/ readPressure
    \/ updatePulse
    \/ readZigbee(Commands)
    \/ timeoutBranch
    \/ launchBranch
    \/ compressorBranch
    \/ launchReturn
    \/ launchStart
    \/ launchRocket

Spec == Init /\ [][Next]_vars

\* The pad with passes at a fixed rate faster than the half-period and a
\* master that never requests a launch.
NextCadence ==
    \/ loop(TickInterval)
    \/ readPressure
    \/ updatePulse
    \/ readZigbee(IdleCommands)
    \/ timeoutBranch
    \/ compressorBranch

SpecCadence == Init /\ [][NextCadence]_vars

TypeOK ==
    /\ now \in 0..(MaxTime + launch_delay)
    /\ pc \in {"loop", "readPressure", "pulse", "readZigbee", "check",
               "launchRocket", "compressorClear", "pad1", "pad2", "delay",
               "closePad1", "closePad2", "resample"}
    /\ pulse \in BOOLEAN
    /\ wasRocketLaunched \in BOOLEAN
    /\ timeSinceLastPulse \in 0..now
    /\ data.lastReceive \in 0..now

---------------------------------------------------------------------------
\* Properties.

\* A pass of updateData() has ended.
PassEnded == pc = "loop" /\ tick.checked

\* Positions before the branch on didMasterTimeout().
BeforeCheck == pc \in {"readPressure", "pulse", "readZigbee", "check"}

ValveOn == PORTD.Pad1Launch \/ PORTD.Pad2Launch

\* C1: at the end of every pass in which didMasterTimeout() returned true
\* the compressor output is off, whatever it was before the pass.
C1_CompressorOffAfterTimeout ==
    (PassEnded /\ tick.timedOut) => ~PORTD.Compressor

\* C2: in a pass in which didMasterTimeout() returned true neither valve
\* output is set on at any point: the valves are off before the branch, and
\* a timed-out pass goes straight to its end without opening one.
C2_NoValveOnTimeout ==
    /\ BeforeCheck => ~ValveOn /\ ~tick.opened1 /\ ~tick.opened2
    /\ tick.timedOut =>
          pc = "loop" /\ ~ValveOn /\ ~tick.fired /\ ~tick.opened1
                      /\ ~tick.opened2

\* A timed-out pass has ended whose command snapshot had the launch request
\* and both pads set when the timeout was found.
C2_Witness ==
    PassEnded /\ tick.timedOut /\ tick.launchSet /\ data.pad1 /\ data.pad2

\* C3: in a run of consecutive passes without timeout that all see the
\* launch request, entered with the latch off, the first pass fires, and
\* no later pass fires or sets a valve output on: one firing per run.
C3_Debounce ==
    /\ (hist.launchRun = 1 /\ pc = "loop") => tick.fired
    /\ (hist.launchRun >= 1 /\ pc = "loop") => hist.runFirings = 1
    /\ hist.launchRun >= 2 =>
          /\ hist.runFirings = 1
          /\ ~tick.fired /\ ~tick.opened1 /\ ~tick.opened2 /\ ~ValveOn

\* The third pass of such a run has ended, with a pad selected.
C3_Witness ==
    PassEnded /\ hist.launchRun >= MaxRun /\ hist.runFirings = 1 /\ data.pad1

\* C4 as claimed: after a firing, once the launch request has been false (by
\* any path, the clearing on a timeout included) and is true again, the first
\* pass without timeout that sees it true fires.
C4_RearmByAnyPath ==
    (PassEnded /\ ~tick.timedOut /\ tick.launchSet /\ tick.firedBefore
        /\ hist.wentFalse) => tick.fired

\* C4 as amended: after a firing, once a pass without timeout has read the
\* launch request false and the request is true again, the first pass without
\* timeout that sees it true fires.
C4_RearmAfterReadFalse ==
    (PassEnded /\ ~tick.timedOut /\ tick.launchSet /\ tick.firedBefore
        /\ hist.readFalse) => tick.fired

\* A second firing, after the request was read false.
C4_Witness ==
    PassEnded /\ tick.firedBefore /\ hist.readFalse /\ tick.launchSet
        /\ tick.fired /\ tick.opened1

\* The latch goes from true to false; a valve output goes from off to on.
LatchReset == wasRocketLaunched /\ ~wasRocketLaunched'
ValveSetOn ==
    \/ ~PORTD.Pad1Launch /\ PORTD'.Pad1Launch
    \/ ~PORTD.Pad2Launch /\ PORTD'.Pad2Launch

\* The latch is reset only by a pass without timeout that reads the launch
\* request false.
LatchResetOnlyWhenIdle ==
    LatchReset =>
        pc = "check" /\ ~didMasterTimeout(data, now)
                     /\ ~isMasterLaunchSet(data)

\* C5 as claimed: the latch is reset only by a pass without timeout that
\* reads the launch request false, and no valve output is set on while the
\* latch is true.
C5_LatchAsClaimed ==
    [][LatchResetOnlyWhenIdle /\ (wasRocketLaunched => ~ValveSetOn)]_vars

\* C5 as amended: the latch is reset only by a pass without timeout that
\* reads the launch request false, and a pass entered with the latch true
\* sets no valve output on.
C5_Latch ==
    [][LatchResetOnlyWhenIdle /\ (tick.latchStart => ~ValveSetOn)]_vars

\* A pass without timeout, entered with the latch true, saw the launch
\* request with a pad selected and ended with the latch still true.
C5_Witness ==
    PassEnded /\ tick.latchStart /\ wasRocketLaunched /\ ~tick.timedOut
        /\ tick.launchSet /\ data.pad1 /\ ~tick.opened1

\* Positions of launchRocket() from the first valve test to the last close.
ValvePhase == pc \in {"pad1", "pad2", "delay", "closePad1", "closePad2"}

\* C6: the compressor output is off from before the first valve output is
\* set on until both are off again: no state has the compressor on and a
\* valve on.
C6_CompressorBeforeValve ==
    (ValvePhase \/ ValveOn) => ~PORTD.Compressor

\* Both valves are on in a pass entered with the compressor on.
C6_Witness ==
    tick.compStart /\ PORTD.Pad1Launch /\ PORTD.Pad2Launch

\* C7 as claimed: a firing sets the pad-1 (pad-2) valve output on iff
\* pad1Selected (pad2Selected) was true when the firing pass began.
C7_PadsAtPassStart ==
    (PassEnded /\ tick.fired) =>
        /\ tick.opened1 <=> tick.pad1Start
        /\ tick.opened2 <=> tick.pad2Start

\* C7 as amended: a firing sets the pad-1 (pad-2) valve output on iff
\* pad1Selected (pad2Selected) is true in the command snapshot the firing
\* reads, the one left by the poll of the firing pass; a pass that does not
\* fire sets neither on.
C7_PadSelection ==
    /\ (PassEnded /\ tick.fired) =>
          /\ tick.opened1 <=> isPad1Selected(data)
          /\ tick.opened2 <=> isPad2Selected(data)
    /\ (tick.opened1 \/ tick.opened2) => tick.fired
    /\ PORTD.Pad1Launch => tick.opened1
    /\ PORTD.Pad2Launch => tick.opened2

\* A firing with pad 1 selected and pad 2 not.
C7_Witness ==
    PassEnded /\ tick.fired /\ tick.opened1 /\ ~tick.opened2
        /\ data.pad1 /\ ~data.pad2

\* C8: a timed-out pass ends with the master-armed and launch-request flags
\* false; the launch request becomes true again only when a command is
\* received, and a firing starts only with the launch request true.
C8_TimeoutClearsRequest ==
    [][/\ (pc' = "loop" /\ tick'.timedOut) =>
             ~data'.masterArm /\ ~data'.masterLaunch
       /\ (~data.masterLaunch /\ data'.masterLaunch) =>
             pc = "readZigbee" /\ data'.lastReceive = now
       /\ (~tick.fired /\ tick'.fired) => isMasterLaunchSet(data)]_vars

\* Communication has resumed after a timeout that cleared a launch request
\* of a launched rocket; the pass that resumed did not fire.
C8_Witness ==
    PassEnded /\ tick.afterTimeout /\ ~tick.timedOut /\ ~tick.fired
        /\ tick.firedBefore

\* The heartbeat step of the pass has run.
PulseDone == pc \notin {"readPressure", "pulse"} /\ tick.startTime > 0

\* pulse differs from what it was when the pass began: an odd number of
\* flips.
Flipped == pulse # tick.pulseStart

\* C9 as claimed: a pass flips the phase once if the time since the last
\* flip is >= the half-period, restarting the interval at the current time,
\* and does not flip otherwise.
C9_FlipAtHalfwidth ==
    PulseDone =>
        /\ tick.pulseTime = tick.startTime - tick.lastPulseStart
        /\ tick.pulseTime >= _pulse_halfwidth_ =>
              Flipped /\ timeSinceLastPulse = tick.startTime
        /\ tick.pulseTime < _pulse_halfwidth_ =>
              ~Flipped /\ timeSinceLastPulse = tick.lastPulseStart

\* C9 as amended: a pass flips the phase once if the time since the last
\* flip is greater than the half-period, restarting the interval at the
\* current time, and does not flip otherwise (not at exactly the
\* half-period); a pass delayed by more than a full period flips once.
C9_FlipAfterHalfwidth ==
    /\ PulseDone =>
          /\ tick.pulseTime = tick.startTime - tick.lastPulseStart
          /\ tick.pulseTime > _pulse_halfwidth_ =>
                Flipped /\ timeSinceLastPulse = tick.startTime
          /\ tick.pulseTime <= _pulse_halfwidth_ =>
                ~Flipped /\ timeSinceLastPulse = tick.lastPulseStart
    /\ ~PulseDone => ~Flipped /\ timeSinceLastPulse = tick.lastPulseStart
    /\ Len(tick.sent) <= 1

\* A pass delayed by more than a full period has flipped the phase.
C9_Witness ==
    PulseDone /\ tick.pulseTime > 2 * _pulse_halfwidth_ /\ Flipped
        /\ timeSinceLastPulse = tick.startTime

\* C10 as claimed (passes every TickInterval, no launch request): two
\* telemetry sends are at least a full period apart, and no full period
\* passes without a send.
C10_OncePerPeriod ==
    /\ tick.gap # 0 => tick.gap >= 2 * _pulse_halfwidth_
    /\ hist.lastSend >= 0 => now - hist.lastSend <= 2 * _pulse_halfwidth_

\* C10 as amended (passes every TickInterval, no launch request): two
\* telemetry sends are more than a full period apart, and at most a full
\* period plus two pass intervals apart; the first send comes within a
\* half-period plus a pass interval.
C10_Cadence ==
    /\ tick.gap # 0 => tick.gap > 2 * _pulse_halfwidth_
    /\ hist.lastSend >= 0 =>
          now - hist.lastSend <= 2 * (_pulse_halfwidth_ + TickInterval)
    /\ hist.lastSend < 0 => now <= _pulse_halfwidth_ + TickInterval
    /\ Len(tick.sent) = 1 <=> hist.lastSend = tick.startTime

\* A telemetry send, more than a full period after the one before it.
C10_Witness ==
    /\ Len(tick.sent) = 1
    /\ hist.lastSend = now
    /\ tick.gap > 2 * _pulse_halfwidth_

\* C11: a pass sends telemetry iff its heartbeat step flipped the phase from
\* off to on: one packet then, none in a pass that does not flip or flips
\* from on to off, whatever the timeout test and the launch request say.
C11_SendOnRisingEdge ==
    Len(tick.sent) = (IF PulseDone /\ Flipped /\ pulse THEN 1 ELSE 0)

\* A timed-out pass that flipped the phase to on and sent a packet.
C11_Witness ==
    PassEnded /\ tick.timedOut /\ Flipped /\ pulse /\ Len(tick.sent) = 1

\* Packet p carries the pressures readPressure() read in the pass of history
\* t and the command fields as they were when that pass began.
CarriesPass(p, t) ==
    /\ p.pressure1 = t.sample1 /\ p.pressure2 = t.sample2
    /\ p.masterLaunch = t.launchStart /\ p.compressor = t.compReqStart
    /\ p.pad1 = t.pad1Start /\ p.pad2 = t.pad2Start

\* C12: a pass runs in the order pressure sample, heartbeat with its
\* telemetry send, poll of the link, timeout/launch/compressor branch; so a
\* packet is sent only by the heartbeat step and carries the pressures read
\* earlier in the same pass and the command fields from before the poll of
\* that pass.
C12_PassOrder ==
    [][/\ pc = "loop" => pc' = "readPressure"
       /\ pc = "readPressure" =>
             /\ pc' = "pulse"
             /\ data'.pressure1 = tick'.sample1
             /\ data'.pressure2 = tick'.sample2
       /\ pc = "pulse" => pc' = "readZigbee"
       /\ pc = "readZigbee" => pc' = "check"
       /\ pc = "check" => pc' \in {"loop", "launchRocket"}
       /\ (tick'.sent # tick.sent /\ tick'.sent # <<>>) => pc = "pulse"
       /\ \A i \in 1..Len(tick'.sent) : CarriesPass(tick'.sent[i], tick')]_vars

\* A pass sent a packet with the pressures it read, then received a command
\* that changed the pad selection and the compressor request.
C12_Witness ==
    /\ PassEnded /\ Len(tick.sent) = 1
    /\ tick.sample1 = 1 /\ tick.sample2 = 0
    /\ tick.sent[1].pressure1 = 1 /\ tick.sent[1].pressure2 = 0
    /\ data.pad1 # tick.sent[1].pad1
    /\ data.compressor # tick.sent[1].compressor

\* C13: at the end of every pass without timeout the safety LED output
\* equals pulse.
C13_SafetyLedFollowsPulse ==
    (PassEnded /\ ~tick.timedOut) => PORTD.SafetyLed = pulse

\* C14: at the end of every timed-out pass the error LED output equals
\* pulse; from one timed-out pass to the next it changes iff the phase
\* flipped.
C14_ErrorLedFollowsPulse ==
    /\ (PassEnded /\ tick.timedOut) => PORTD.ErrorLed = pulse
    /\ (PassEnded /\ tick.timedOut /\ tick.afterTimeout) =>
          (PORTD.ErrorLed # tick.errStart <=> Flipped)

\* The second of two timed-out passes flipped the phase to off and turned
\* the error LED off.
C14_Witness ==
    PassEnded /\ tick.timedOut /\ tick.afterTimeout /\ Flipped
        /\ tick.errStart /\ ~PORTD.ErrorLed

\* C15: at the end of every pass without timeout that read the launch
\* request false, the compressor output equals the compressor request of
\* the command snapshot and the latch is false.
C15_CompressorMirrorsRequest ==
    (PassEnded /\ ~tick.timedOut /\ ~tick.launchSet) =>
        /\ PORTD.Compressor = isCompressorOn(data)
        /\ ~wasRocketLaunched

\* Such a pass turned the compressor on and reset the latch.
C15_Witness ==
    PassEnded /\ ~tick.timedOut /\ ~tick.launchSet /\ tick.latchStart
        /\ ~tick.compStart /\ PORTD.Compressor

\* Steps of launchRocket() left before it returns, at position p.
StepsLeft(p) ==
    CASE p = "compressorClear" -> 7
      [] p = "pad1" -> 6
      [] p = "pad2" -> 5
      [] p = "delay" -> 4
      [] p = "closePad1" -> 3
      [] p = "closePad2" -> 2
      [] p = "resample" -> 1
      [] OTHER -> 0

\* Positions at which a valve output may be on.
ValveHold == {"pad2", "delay", "closePad1", "closePad2"}

\* A step that is one step nearer to the return of launchRocket() and is no
\* poll and no heartbeat update.
FiringStep ==
    /\ StepsLeft(pc') = StepsLeft(pc) - 1
    /\ pulse' = pulse /\ timeSinceLastPulse' = timeSinceLastPulse
    /\ tick'.sent = tick.sent
    /\ data'.lastReceive = data.lastReceive
    /\ sendDataToMaster(data') =
          sendDataToMaster(setPressure2(setPressure1(data, data'.pressure1),
                                        data'.pressure2))

\* C16: a firing runs to completion within its pass.  A valve output is on
\* only between the valve tests and the two closes, so both are off when the
\* pass ends; at each position of a firing the next step of launchRocket()
\* can be taken, and every step that can be taken there is one step nearer
\* to the return, no poll and no heartbeat update.
C16_FiringCompletes ==
    /\ ValveOn => pc \in ValveHold
    /\ StepsLeft(pc) > 0 =>
          /\ ENABLED launchRocket
          /\ ~ENABLED (Next /\ ~FiringStep)

\* A firing that had both valve outputs on has returned.
C16_Witness ==
    PassEnded /\ tick.fired /\ tick.opened1 /\ tick.opened2 /\ ~ValveOn

\* The launch request is seen by a pass without timeout whose latch is set.
RepeatedLaunch ==
    \/ pc = "check" /\ ~didMasterTimeout(data, now)
          /\ isMasterLaunchSet(data) /\ wasRocketLaunched
    \/ pc = "launchRocket" /\ wasRocketLaunched

\* C17: a pass without timeout that sees the launch request with the latch
\* already true changes nothing after the poll: the five outputs, the latch
\* and the stored pressures and command are as before, and the pass ends.
C17_RepeatedLaunchNoOp ==
    [][RepeatedLaunch =>
          /\ PORTD' = PORTD
          /\ wasRocketLaunched' = wasRocketLaunched
          /\ data' = data
          /\ pc' \in {"launchRocket", "loop"}
          /\ ~tick'.fired]_vars

\* Such a pass has ended, with a pad selected, the error LED left on by an
\* earlier timeout and the pressures of this pass still stored.
C17_Witness ==
    PassEnded /\ ~tick.timedOut /\ tick.launchSet /\ tick.latchStart
        /\ ~tick.fired /\ data.pad1 /\ PORTD.ErrorLed
        /\ data.pressure1 = 1 /\ tick.sample1 = 1

\* C18: every firing ends with a reading of both pressures taken with both
\* valves closed, and the per-pass sample of the next pass does not replace
\* that reading before a telemetry send has carried it.
C18_PostFireReadingSent ==
    [][/\ pc = "resample" => ~ValveOn
       /\ (pc = "readPressure" /\ tick.afterFiring) =>
             /\ data'.pressure1 = data.pressure1
             /\ data'.pressure2 = data.pressure2]_vars

\* C19: when a pass has ended with the latch true the compressor output is
\* off, and the compressor output goes from off to on only in the branch of
\* a pass without timeout that reads the launch request false and the
\* compressor request true.
C19_LatchedCompressorOff ==
    [][/\ (pc = "loop" /\ wasRocketLaunched) => ~PORTD.Compressor
       /\ (pc' = "loop" /\ wasRocketLaunched') => ~PORTD'.Compressor
       /\ (~PORTD.Compressor /\ PORTD'.Compressor) =>
             /\ pc = "check"
             /\ ~didMasterTimeout(data, now)
             /\ ~isMasterLaunchSet(data)
             /\ isCompressorOn(data)]_vars

\* A pass entered with the compressor on has fired: the latch is true, the
\* compressor is off though still requested.
C19_Witness ==
    PassEnded /\ wasRocketLaunched /\ tick.fired /\ tick.compStart
        /\ ~PORTD.Compressor /\ isCompressorOn(data)

\* C20: only the timeout branch writes the error LED output, so a pass
\* without timeout ends with the level the error LED had when it began.
C20_ErrorLedKept ==
    [][/\ PORTD'.ErrorLed # PORTD.ErrorLed =>
             pc = "check" /\ didMasterTimeout(data, now)
       /\ (pc' = "loop" /\ tick'.checked /\ ~tick'.timedOut) =>
             PORTD'.ErrorLed = tick'.errStart]_vars

\* Communication has resumed after a timeout: the pass without timeout has
\* ended, pulse is off and the error LED is still on.
C20_Witness ==
    PassEnded /\ tick.afterTimeout /\ ~tick.timedOut /\ tick.errStart
        /\ PORTD.ErrorLed /\ ~pulse

====
